---- MODULE Spec2Model ----
(***************************************************************************)
(* Model of the eGovern residents dashboard (src/streamlit/app.py): the    *)
(* cleaning step clean_data, the sidebar filters, the display functions of *)
(* the six tabs and the helpers they use (binning, correlation             *)
(* interpretation, regression inputs).                                     *)
(*                                                                         *)
(* A DataFrame is [columns |-> set of names, rows |-> sequence of rows];   *)
(* a row is [index |-> label, cells |-> [columns -> cell]].  A cell is a   *)
(* record [t, s, n, f]: t is "nan" (NaN/NaT/None), "str" (text s), "num"   *)
(* (the number n + f/10, n the whole part and f the signed tenths) or      *)
(* "ts" (a Timestamp, n = yyyymmdd).                                       *)
(***************************************************************************)
EXTENDS Integers, Sequences, FiniteSets, TLC

VARIABLES
    raw,          \* the uploaded table (load_csv's result)
    data,         \* the module-level `data` the script rebinds
    pc,           \* position of the script run
    current_year, \* pd.to_datetime('today').year
    result,       \* what the last call returned or raised
    again,        \* result of clean_data applied to its own output
    correlation_value, \* argument of interpret_correlation, in hundredths
    evaluation,   \* the string interpret_correlation returned
    pyramid,      \* what display_population_pyramid computed
    filters,      \* the sidebar selections
    called,       \* the display functions called so far, in order
    fit,          \* the arguments display_demographics passed to linregress
    group_data,   \* display_treemap's grouped counts
    correlation   \* what pearsonr gave display_demographics (line 372)

vars == <<raw, data, pc, current_year, result, again,
          correlation_value, evaluation, pyramid, filters, called, fit, group_data,
          correlation>>

----------------------------------------------------------------------------
(* Cells *)

NaN == [t |-> "nan", s |-> "", n |-> 0, f |-> 0]
Str(x) == [t |-> "str", s |-> x, n |-> 0, f |-> 0]
Num(whole, tenths) == [t |-> "num", s |-> "", n |-> whole, f |-> tenths]
Timestamp(ymd) == [t |-> "ts", s |-> "", n |-> ymd, f |-> 0]

isna(c) == c.t = "nan"

----------------------------------------------------------------------------
(* Text: the characters of the strings that occur as cell values *)

Chars(x) ==
    CASE x = "15000" -> <<"1", "5", "0", "0", "0">>
      [] x = "20000" -> <<"2", "0", "0", "0", "0">>
      [] x = "4" -> <<"4">>
      [] x = "-3" -> <<"-", "3">>
      [] x = "2.7" -> <<"2", ".", "7">>
      [] x = "-2.7" -> <<"-", "2", ".", "7">>
      [] x = "abc" -> <<"a", "b", "c">>
      [] x = "2000-01-01" -> <<"2", "0", "0", "0", "-", "0", "1", "-", "0", "1">>
      [] x = "1990-06-15" -> <<"1", "9", "9", "0", "-", "0", "6", "-", "1", "5">>
      [] x = "2001-12-31" -> <<"2", "0", "0", "1", "-", "1", "2", "-", "3", "1">>
      [] x = "1990-13-45" -> <<"1", "9", "9", "0", "-", "1", "3", "-", "4", "5">>
      [] OTHER -> <<"?">>

DigitChars == {"0", "1", "2", "3", "4", "5", "6", "7", "8", "9"}

DigitVal(c) ==
    CASE c = "0" -> 0 [] c = "1" -> 1 [] c = "2" -> 2 [] c = "3" -> 3
      [] c = "4" -> 4 [] c = "5" -> 5 [] c = "6" -> 6 [] c = "7" -> 7
      [] c = "8" -> 8 [] c = "9" -> 9

AllDigits(cs) == Len(cs) > 0 /\ \A i \in 1..Len(cs) : cs[i] \in DigitChars

RECURSIVE NatOf(_)
NatOf(cs) ==
    IF Len(cs) = 0 THEN 0
    ELSE NatOf(SubSeq(cs, 1, Len(cs) - 1)) * 10 + DigitVal(cs[Len(cs)])

DotAt(cs) ==
    IF \E i \in 1..Len(cs) : cs[i] = "."
    THEN CHOOSE i \in 1..Len(cs) : cs[i] = "." /\ \A j \in 1..(i - 1) : cs[j] # "."
    ELSE 0

(* pd.to_numeric(..., errors='coerce') on one cell: a number stays, text is   *)
(* parsed as [-]digits[.digits] (the fraction kept to tenths), anything else *)
(* becomes NaN.                                                              *)
ParseNumber(cs) ==
    LET neg == Len(cs) > 0 /\ cs[1] = "-"
        body == IF neg THEN SubSeq(cs, 2, Len(cs)) ELSE cs
        dot == DotAt(body)
        whole == IF dot = 0 THEN body ELSE SubSeq(body, 1, dot - 1)
        frac == IF dot = 0 THEN <<>> ELSE SubSeq(body, dot + 1, Len(body))
        sgn == IF neg THEN -1 ELSE 1
    IN  IF AllDigits(whole) /\ (dot = 0 \/ AllDigits(frac))
        THEN Num(sgn * NatOf(whole),
                 IF dot = 0 THEN 0 ELSE sgn * DigitVal(frac[1]))
        ELSE NaN

to_numeric(c) ==
    CASE c.t = "num" -> c
      [] c.t = "str" -> ParseNumber(Chars(c.s))
      [] OTHER -> NaN

DaysIn(m) ==
    CASE m \in {4, 6, 9, 11} -> 30
      [] m = 2 -> 29
      [] OTHER -> 31

(* pd.to_datetime(..., errors='coerce') on one cell: a Timestamp stays, text *)
(* of the form YYYY-MM-DD naming a calendar day is parsed, anything else     *)
(* becomes NaT.                                                              *)
ParseDate(cs) ==
    IF /\ Len(cs) = 10
       /\ cs[5] = "-" /\ cs[8] = "-"
       /\ AllDigits(SubSeq(cs, 1, 4))
       /\ AllDigits(SubSeq(cs, 6, 7))
       /\ AllDigits(SubSeq(cs, 9, 10))
    THEN LET y == NatOf(SubSeq(cs, 1, 4))
             m == NatOf(SubSeq(cs, 6, 7))
             d == NatOf(SubSeq(cs, 9, 10))
         IN  IF m \in 1..12 /\ d \in 1..DaysIn(m)
             THEN Timestamp(y * 10000 + m * 100 + d)
             ELSE NaN
    ELSE NaN

to_datetime(c) ==
    CASE c.t = "ts" -> c
      [] c.t = "str" -> ParseDate(Chars(c.s))
      [] OTHER -> NaN

dt_year(c) == c.n \div 10000

(* Series.fillna(v) on one cell *)
fillna(c, v) == IF isna(c) THEN v ELSE c

(* Series.astype(int) on one (non-null) numeric cell: truncation toward zero *)
astype_int(c) == Num(c.n, 0)

----------------------------------------------------------------------------
(* DataFrames *)

essential_fields ==
    {"gender", "birthdate", "civilStatus", "employmentStatus", "avgMonthlyIncome"}

categorical_fields ==
    {"occupation", "educationalAttainment", "relationToHead", "sectorCode", "ethnicity"}

CsvColumns == essential_fields \cup categorical_fields \cup {"householdNum"}

DataFrame(cols, rows) == [columns |-> cols, rows |-> rows]

EmptyFrame == DataFrame({}, <<>>)

(* What a call does: return a value or raise *)
Returned(v) == [raised |-> "none", value |-> v]
Raised(e) == [raised |-> e, value |-> EmptyFrame]

(* DataFrame.dropna(subset=...): keep the rows with no null in the subset *)
dropna(df, subset) ==
    LET keep(r) == \A c \in subset : ~isna(r.cells[c])
    IN  DataFrame(df.columns, SelectSeq(df.rows, keep))

(* data[col] = g(data[col]) for an existing or a new column *)
assign(df, col, g(_)) ==
    DataFrame(df.columns \cup {col},
              [i \in 1..Len(df.rows) |->
                  [index |-> df.rows[i].index,
                   cells |-> [c \in df.columns \cup {col} |->
                                 IF c = col THEN g(df.rows[i])
                                 ELSE df.rows[i].cells[c]]]])

----------------------------------------------------------------------------
(* clean_data, statement by statement *)

(* line 16 *)
drop_essential(df) == dropna(df, essential_fields)

RECURSIVE fill_fields(_, _)
fill_fields(df, fields) ==
    IF fields = {} THEN df
    ELSE LET field == CHOOSE x \in fields : TRUE
             filled(r) == fillna(r.cells[field], Str("Unknown"))
         IN  fill_fields(assign(df, field, filled), fields \ {field})

(* fill_categorical leaving one field out of the list *)
fill_categorical_skip(df) == fill_fields(df, categorical_fields \ {"ethnicity"})

(* lines 19-21 *)
fill_categorical(df) == fill_fields(df, categorical_fields)

(* line 24 *)
convert_income(df) ==
    LET g(r) == to_numeric(r.cells["avgMonthlyIncome"])
    IN  assign(df, "avgMonthlyIncome", g)

(* line 25 *)
convert_household(df) ==
    LET g(r) == astype_int(fillna(to_numeric(r.cells["householdNum"]), Num(0, 0)))
    IN  assign(df, "householdNum", g)

(* line 28 *)
parse_birthdate(df) ==
    LET g(r) == to_datetime(r.cells["birthdate"])
    IN  assign(df, "birthdate", g)

(* line 30: current_year - data['birthdate'].dt.year, NaN where birthdate is NaT *)
derive_age(df, year) ==
    LET g(r) == IF isna(r.cells["birthdate"]) THEN NaN
                ELSE Num(year - dt_year(r.cells["birthdate"]), 0)
    IN  assign(df, "age", g)

(* line 33 *)
drop_invalid(df) == dropna(df, {"birthdate", "age"})

(* lines 10-35.  Selecting a column the frame does not have raises KeyError: *)
(* dropna(subset=...) at line 16, data[field] at line 21, data['householdNum'] *)
(* at line 25.                                                               *)
clean_data(df, year) ==
    IF ~(essential_fields \subseteq df.columns) THEN Raised("KeyError")
    ELSE IF ~(categorical_fields \subseteq df.columns) THEN Raised("KeyError")
    ELSE IF "householdNum" \notin df.columns THEN Raised("KeyError")
    ELSE Returned(
           drop_invalid(
             derive_age(
               parse_birthdate(
                 convert_household(
                   convert_income(
                     fill_categorical(
                       drop_essential(df))))),
               year)))

----------------------------------------------------------------------------
(* Uploaded tables *)

BaseCells ==
    [c \in CsvColumns |->
        CASE c = "gender" -> Str("Male")
          [] c = "birthdate" -> Str("2000-01-01")
          [] c = "civilStatus" -> Str("Single")
          [] c = "employmentStatus" -> Str("Employed")
          [] c = "avgMonthlyIncome" -> Str("15000")
          [] c = "householdNum" -> Str("4")
          [] c = "occupation" -> Str("Farmer")
          [] c = "educationalAttainment" -> Str("College")
          [] c = "relationToHead" -> Str("Head")
          [] c = "sectorCode" -> Str("A")
          [] c = "ethnicity" -> Str("Tagalog")]

(* Other values a cell of each column takes in the uploaded file *)
Variants(c) ==
    CASE c = "gender" -> {NaN, Str("Female")}
      [] c = "birthdate" -> {NaN, Str("abc"), Str("1990-06-15"), Str("1990-13-45")}
      [] c = "avgMonthlyIncome" -> {NaN, Str("abc"), Str("20000")}
      [] c = "householdNum" -> {NaN, Str("abc"), Str("-3"), Str("2.7"), Str("-2.7")}
      [] c = "occupation" -> {NaN, Str("Unknown")}
      [] OTHER -> {NaN}

(* The rows of the uploaded file: the base row, the base row with one cell  *)
(* changed, and two rows with two defects.                                  *)
RawCells ==
    {BaseCells}
    \cup {[BaseCells EXCEPT ![c] = v] : <<c, v>> \in
             UNION {{<<c, v>> : v \in Variants(c)} : c \in CsvColumns}}
    \cup {[BaseCells EXCEPT !["avgMonthlyIncome"] = Str("abc"),
                            !["birthdate"] = Str("abc")],
          [BaseCells EXCEPT !["avgMonthlyIncome"] = Str("abc"),
                            !["gender"] = Str("Female")]}

MaxRows == 2

(* The column sets of the uploaded file: all columns, or some left out *)
Schemas ==
    {CsvColumns,
     CsvColumns \ {"occupation"},
     CsvColumns \ categorical_fields,
     CsvColumns \ {"householdNum"},
     CsvColumns \ {"gender"},
     CsvColumns \ essential_fields}

project(cells, cols) == [c \in cols |-> cells[c]]

RECURSIVE CellSeqs(_)
CellSeqs(n) ==
    IF n = 0 THEN {<<>>}
    ELSE LET shorter == CellSeqs(n - 1)
         IN  shorter \cup {Append(q, x) : q \in {p \in shorter : Len(p) = n - 1},
                                          x \in RawCells}

(* load_csv, lines 733-738: the frame read from the file, index 0..n-1 *)
load_csv(cols, cellseq) ==
    DataFrame(cols, [i \in 1..Len(cellseq) |->
                        [index |-> i - 1, cells |-> project(cellseq[i], cols)]])

RawTables == {load_csv(cols, q) : cols \in Schemas, q \in CellSeqs(MaxRows)}

Years == {2026}

----------------------------------------------------------------------------
(* The cleaning step on its own: clean_data applied to an uploaded table,    *)
(* then applied again to what it returned.                                   *)

NoResult == Raised("unset")

NoPivot == [columns |-> <<>>, rows |-> {}]

NoPyramid == [shown |-> FALSE, age_bins |-> <<>>, labels |-> <<>>,
              age_group |-> <<>>, counts |-> {}, pivot |-> NoPivot]

(* The variables of the other parts of the program, at rest *)
IdleEvaluator == correlation_value = 0 /\ evaluation = ""
NoFilters == [sex |-> "All", civil_status |-> "All", employment_status |-> "All",
              education |-> {}, age_range |-> <<0, 0>>]

NoFit == [reached |-> FALSE, x |-> <<>>, y |-> <<>>]

NoCorrelation == [state |-> "unset", num |-> 0, sxx |-> 0, syy |-> 0]

IdleCharts ==
    /\ pyramid = NoPyramid
    /\ filters = NoFilters
    /\ called = <<>>
    /\ fit = NoFit
    /\ group_data = {}
    /\ correlation = NoCorrelation

InitClean ==
    /\ raw \in RawTables
    /\ data = raw
    /\ pc = "loaded"
    /\ current_year \in Years
    /\ result = NoResult
    /\ again = NoResult
    /\ IdleEvaluator
    /\ IdleCharts

(* clean_data(T) for an uploaded table T *)
CleanOnce ==
    /\ pc = "loaded"
    /\ result' = clean_data(data, current_year)
    /\ data' = IF result'.raised = "none" THEN result'.value ELSE data
    /\ pc' = IF result'.raised = "none" THEN "cleaned" ELSE "aborted"
    /\ UNCHANGED <<raw, current_year, again, correlation_value, evaluation, pyramid,
                   filters, called, fit, group_data, correlation>>

(* clean_data applied to the cleaned table *)
CleanAgain ==
    /\ pc = "cleaned"
    /\ again' = clean_data(data, current_year)
    /\ pc' = "recleaned"
    /\ UNCHANGED <<raw, data, current_year, result, correlation_value, evaluation,
                   pyramid, filters, called, fit, group_data, correlation>>

NextClean == CleanOnce \/ CleanAgain

SpecClean == InitClean /\ [][NextClean]_vars

----------------------------------------------------------------------------
(* Properties of the cleaning step *)

Cleaned == pc \in {"cleaned", "recleaned"}

(* The uploaded row a cleaned row comes from (the index label is kept) *)
RawRow(r) == raw.rows[r.index + 1]

RowsOf(df) == {df.rows[i] : i \in 1..Len(df.rows)}

(* C1: cleaning the cleaned table returns it unchanged: the same rows with  *)
(* the same cell values, none dropped and none altered.                     *)
C1_CleanIdempotent ==
    pc = "recleaned" => again = Returned(data)

(* C2: every row of the cleaned table has a non-null value in each of the   *)
(* five essential fields.                                                   *)
C2_EssentialNonNull ==
    Cleaned => \A r \in RowsOf(data) : \A c \in essential_fields : ~isna(r.cells[c])

(* C3: in the cleaned table no row has a null age, the rows whose birthdate *)
(* does not parse are gone, and each optional categorical field is never    *)
(* null: "Unknown" where the uploaded value was null, the uploaded value    *)
(* unchanged otherwise.                                                     *)
C3_AgeAndCategoricalNonNull ==
    Cleaned =>
      /\ \A r \in RowsOf(data) :
            /\ ~isna(r.cells["age"])
            /\ ~isna(to_datetime(RawRow(r).cells["birthdate"]))
            /\ \A c \in categorical_fields :
                  /\ ~isna(r.cells[c])
                  /\ r.cells[c] = IF isna(RawRow(r).cells[c]) THEN Str("Unknown")
                                  ELSE RawRow(r).cells[c]
      /\ \A q \in RowsOf(raw) :
            isna(to_datetime(q.cells["birthdate"])) =>
                \A r \in RowsOf(data) : r.index # q.index

(* A cleaned table that kept a row whose optional field was null in the     *)
(* upload and lost a row whose birthdate did not parse.                     *)
C3_Witness ==
    /\ pc = "cleaned"
    /\ \E r \in RowsOf(data) : \E c \in categorical_fields : isna(RawRow(r).cells[c])
    /\ \E q \in RowsOf(raw) :
          /\ q.cells["birthdate"].t = "str"
          /\ isna(to_datetime(q.cells["birthdate"]))
          /\ \A r \in RowsOf(data) : r.index # q.index

(* C4: householdNum of every cleaned row is a non-negative integer, and is  *)
(* 0 where the uploaded value was null or not a number.                     *)
C4_HouseholdNonNegative ==
    Cleaned =>
      \A r \in RowsOf(data) :
         /\ r.cells["householdNum"].t = "num"
         /\ r.cells["householdNum"].f = 0
         /\ r.cells["householdNum"].n >= 0
         /\ isna(to_numeric(RawRow(r).cells["householdNum"]))
               => r.cells["householdNum"] = Num(0, 0)

(* C5: clean_data fails only with SchemaError, and only when no essential   *)
(* column is in the table; on a table with the required columns it returns  *)
(* a table, with or without the optional columns.                           *)
C5_OnlySchemaError ==
    pc # "loaded" =>
      /\ result.raised \in {"none", "SchemaError"}
      /\ result.raised = "SchemaError" => essential_fields \cap raw.columns = {}
      /\ (essential_fields \cup {"householdNum"}) \subseteq raw.columns
            => result.raised = "none"

----------------------------------------------------------------------------
(* interpret_correlation, lines 445-462.  A coefficient is held in          *)
(* hundredths: 80 is 0.8.                                                   *)

interpret_correlation(v) ==
    IF v > 80 THEN "Strong Positive Correlation"
    ELSE IF 50 < v /\ v <= 80 THEN "Moderate Positive Correlation"
    ELSE IF 20 < v /\ v <= 50 THEN "Weak Positive Correlation"
    ELSE IF -20 < v /\ v <= 20 THEN "No Correlation"
    ELSE IF -50 <= v /\ v < -20 THEN "Weak Negative Correlation"
    ELSE IF -80 <= v /\ v < -50 THEN "Moderate Negative Correlation"
    ELSE "Strong Negative Correlation"

CorrelationValues == -100..100

InitInterpret ==
    /\ raw = EmptyFrame
    /\ data = EmptyFrame
    /\ pc = "interpret"
    /\ current_year \in Years
    /\ result = NoResult
    /\ again = NoResult
    /\ correlation_value \in CorrelationValues
    /\ evaluation = ""
    /\ IdleCharts

(* evaluation = interpret_correlation(correlation_value), line 442 *)
Interpret ==
    /\ pc = "interpret"
    /\ evaluation' = interpret_correlation(correlation_value)
    /\ pc' = "interpreted"
    /\ UNCHANGED <<raw, data, current_year, result, again, correlation_value,
                   pyramid, filters, called, fit, group_data, correlation>>

NextInterpret == Interpret

SpecInterpret == InitInterpret /\ [][NextInterpret]_vars

(* The classification the thresholds define *)
ThresholdClass(v) ==
    CASE v > 80 -> "Strong Positive Correlation"
      [] 50 < v /\ v <= 80 -> "Moderate Positive Correlation"
      [] 20 < v /\ v <= 50 -> "Weak Positive Correlation"
      [] -20 <= v /\ v <= 20 -> "No Correlation"
      [] -50 <= v /\ v < -20 -> "Weak Negative Correlation"
      [] -80 <= v /\ v < -50 -> "Moderate Negative Correlation"
      [] v < -80 -> "Strong Negative Correlation"

(* C6: every coefficient in [-1, 1] gets the class of the thresholds; 0.8   *)
(* is moderate positive and -0.2 is no correlation.                         *)
C6_InterpretThresholds ==
    pc = "interpreted" => evaluation = ThresholdClass(correlation_value)

----------------------------------------------------------------------------
(* display_population_pyramid, lines 280-350 *)

Column(df, col) == [i \in 1..Len(df.rows) |-> df.rows[i].cells[col]]

NonNull(cells) == {cells[i] : i \in {j \in 1..Len(cells) : ~isna(cells[j])}}

(* Series.min() and Series.max() of a numeric column: nulls are skipped *)
series_min(cells) ==
    CHOOSE m \in {c.n : c \in NonNull(cells)} : \A c \in NonNull(cells) : m <= c.n

series_max(cells) ==
    CHOOSE m \in {c.n : c \in NonNull(cells)} : \A c \in NonNull(cells) : m >= c.n

(* list(range(start, stop, step)) for step > 0 *)
range(start, stop, step) ==
    LET n == IF stop > start THEN (stop - start + step - 1) \div step ELSE 0
    IN  [k \in 1..n |-> start + (k - 1) * step]

(* f"{i}-{i + 9}" *)
bin_label(i) == ToString(i) \o "-" \o ToString(i + 9)

(* line 297 *)
age_bins(age_min, age_max) == range(age_min, age_max + 10, 10)

(* line 303 *)
age_labels(age_min, age_max) ==
    LET starts == range(age_min, age_max, 10)
    IN  [k \in 1..Len(starts) |-> bin_label(starts[k])]

(* pd.cut(values, bins=bins, right=False, labels=labels) on one value: the   *)
(* label of the half-open bin [bins[j], bins[j+1]) holding it, NaN when the  *)
(* value is null or in no bin.                                               *)
cut_one(c, bins, labels) ==
    IF isna(c) THEN NaN
    ELSE LET hits == {j \in 1..(Len(bins) - 1) : bins[j] <= c.n /\ c.n < bins[j + 1]}
         IN  IF hits = {} THEN NaN ELSE Str(labels[CHOOSE j \in hits : TRUE])

(* lines 299-304: the age_group column, or the ValueError pd.cut raises when *)
(* the labels are not one fewer than the bin edges                           *)
cut(values, bins, labels) ==
    IF Len(labels) # Len(bins) - 1 THEN Raised("ValueError")
    ELSE Returned([i \in 1..Len(values) |-> cut_one(values[i], bins, labels)])

(* line 305: groupby(['age_group', 'gender']).size() on a categorical        *)
(* age_group: one count per category and gender present, 0 included          *)
pyramid_counts(age_group, gender, labels) ==
    {[age_group |-> labels[k], gender |-> g.s,
      count |-> Cardinality({i \in 1..Len(age_group) :
                                age_group[i] = Str(labels[k]) /\ gender[i] = g})] :
        k \in 1..Len(labels), g \in NonNull(gender)}

(* The gender values of the tables here, in the sorted order pivot gives    *)
(* its columns                                                               *)
GenderOrder == <<"Female", "Male", "Other">>

(* line 312: pivot(index='age_group', columns='gender', values='count')      *)
(* .fillna(0): one column per gender value in the counts, one row per age    *)
(* group, 0 where a pair has no count                                        *)
pivot(counts) ==
    LET present(g) == \E r \in counts : r.gender = g
        cell(a, g) ==
            IF \E r \in counts : r.age_group = a /\ r.gender = g
            THEN (CHOOSE r \in counts : r.age_group = a /\ r.gender = g).count
            ELSE 0
    IN  [columns |-> SelectSeq(GenderOrder, present),
         rows |-> {[age_group |-> a,
                    cells |-> [g \in {r.gender : r \in counts} |-> cell(a, g)]] :
                      a \in {r.age_group : r \in counts}}]

(* lines 315-318: if name not in pyramid_data.columns: pyramid_data[name] = 0 *)
with_column(p, name) ==
    IF \E i \in 1..Len(p.columns) : p.columns[i] = name THEN p
    ELSE [columns |-> Append(p.columns, name),
          rows |-> {[r EXCEPT !.cells = [g \in DOMAIN r.cells \cup {name} |->
                                           IF g = name THEN 0 ELSE r.cells[g]]] :
                      r \in p.rows}]

(* line 320: pyramid_data[names] *)
select_columns(p, names) ==
    [columns |-> names,
     rows |-> {[r EXCEPT !.cells = [g \in {names[i] : i \in 1..Len(names)} |-> r.cells[g]]] :
                 r \in p.rows}]

(* line 321: pyramid_data[name] = -pyramid_data[name] *)
negated(p, name) ==
    [columns |-> p.columns,
     rows |-> {[r EXCEPT !.cells[name] = 0 - r.cells[name]] : r \in p.rows}]

(* Lines 312-321 without the column selection of line 320 *)
pyramid_pivot_unselected(counts) ==
    negated(with_column(with_column(pivot(counts), "Male"), "Female"), "Male")

(* lines 312-321: pivot on gender with 0 for a missing cell, the Male and    *)
(* Female columns added when absent, only those two kept, Male negated       *)
pyramid_pivot(counts) ==
    negated(select_columns(with_column(with_column(pivot(counts), "Male"), "Female"),
                           <<"Male", "Female">>),
            "Male")

population_pyramid(df) ==
    LET age == Column(df, "age")
        gender == Column(df, "gender")
    IN  IF Len(df.rows) = 0 \/ NonNull(age) = {} \/ NonNull(gender) = {}
        THEN Returned(NoPyramid)
        ELSE LET age_min == series_min(age)
                 age_max == series_max(age)
                 bins == age_bins(age_min, age_max)
                 labels == age_labels(age_min, age_max)
                 groups == cut(age, bins, labels)
             IN  IF groups.raised # "none" THEN Raised("ValueError")
                 ELSE LET counts == pyramid_counts(groups.value, gender, labels)
                      IN  Returned([shown |-> counts # {},
                                    age_bins |-> bins,
                                    labels |-> labels,
                                    age_group |-> groups.value,
                                    counts |-> counts,
                                    pivot |-> pyramid_pivot(counts)])

(* display_population_pyramid(data), line 807 *)
display_population_pyramid ==
    /\ pc = "tab1_pyramid"
    /\ called' = Append(called, "display_population_pyramid")
    /\ LET out == population_pyramid(data)
       IN  /\ pyramid' = IF out.raised = "none" THEN out.value ELSE pyramid
           /\ result' = IF out.raised = "none" THEN Returned(EmptyFrame)
                        ELSE Raised(out.raised)
           /\ pc' = IF out.raised = "none" THEN "tab2_heatmap" ELSE "aborted"
    /\ UNCHANGED <<raw, data, current_year, again, correlation_value, evaluation,
                   filters, fit, group_data, correlation>>

----------------------------------------------------------------------------
(* The binning on its own: display_population_pyramid called on a table of   *)
(* ages and genders.                                                         *)

Ages == {5, 12, 15, 25}

MaxAgeRows == 3

AgeCells ==
    {[age |-> Num(a, 0), gender |-> Str(g)] : a \in Ages, g \in {"Male", "Female", "Other"}}

RECURSIVE AgeSeqs(_)
AgeSeqs(n) ==
    IF n = 0 THEN {<<>>}
    ELSE LET shorter == AgeSeqs(n - 1)
         IN  shorter \cup {Append(q, x) : q \in {p \in shorter : Len(p) = n - 1},
                                          x \in AgeCells}

AgeTables ==
    {DataFrame({"age", "gender"},
               [i \in 1..Len(q) |-> [index |-> i - 1, cells |-> q[i]]]) :
        q \in AgeSeqs(MaxAgeRows)}

InitBin ==
    /\ raw = EmptyFrame
    /\ data \in AgeTables
    /\ pc = "tab1_pyramid"
    /\ current_year \in Years
    /\ result = NoResult
    /\ again = NoResult
    /\ IdleEvaluator
    /\ IdleCharts

NextBin == display_population_pyramid

SpecBin == InitBin /\ [][NextBin]_vars

Binned == pc = "tab2_heatmap" /\ called = <<"display_population_pyramid">>

AgeOf(i) == data.rows[i].cells["age"].n

(* C7: binning with width 10 gives every row a bucket: each age between the *)
(* column's minimum and maximum lies in exactly one generated half-open     *)
(* bucket, and the rows at the column maximum are in the last bucket.       *)
C7_EveryRowBinned ==
    (Binned /\ Len(data.rows) > 0) =>
      \A i \in 1..Len(data.rows) :
         /\ Cardinality({j \in 1..(Len(pyramid.age_bins) - 1) :
                            /\ pyramid.age_bins[j] <= AgeOf(i)
                            /\ AgeOf(i) < pyramid.age_bins[j] + 10}) = 1
         /\ ~isna(pyramid.age_group[i])
         /\ AgeOf(i) = series_max(Column(data, "age"))
               => pyramid.age_group[i] = Str(pyramid.labels[Len(pyramid.labels)])

(* C8: ages 5, 15 and 25 binned with width 10 give exactly the buckets      *)
(* "0-9", "10-19" and "20-29", one row in each.                             *)
C8_ThreeDecades ==
    (Binned /\ [i \in 1..Len(data.rows) |-> AgeOf(i)] = <<5, 15, 25>>) =>
      /\ {pyramid.labels[k] : k \in 1..Len(pyramid.labels)} = {"0-9", "10-19", "20-29"}
      /\ \A b \in {"0-9", "10-19", "20-29"} :
            Cardinality({i \in 1..3 : pyramid.age_group[i] = Str(b)}) = 1

----------------------------------------------------------------------------
(* The script run, lines 746-818: clean, sidebar, filters, then the display *)
(* functions of the six tabs in order.  An exception no handler catches      *)
(* ends the run: the statements after the raising call are not executed.     *)

Unique(cells) == {c.s : c \in NonNull(cells)}

AgesIn(df) == {c.n : c \in NonNull(Column(df, "age"))}

(* data[data[col] == v] *)
filter_eq(df, col, v) ==
    LET keep(r) == r.cells[col] = Str(v)
    IN  DataFrame(df.columns, SelectSeq(df.rows, keep))

(* data[data[col].isin(values)] *)
filter_isin(df, col, values) ==
    LET keep(r) == r.cells[col].t = "str" /\ r.cells[col].s \in values
    IN  DataFrame(df.columns, SelectSeq(df.rows, keep))

(* The age filter with its upper end left out: data['age'] < hi *)
filter_range_exclusive(df, lo, hi) ==
    LET keep(r) == ~isna(r.cells["age"]) /\ r.cells["age"].n >= lo /\ r.cells["age"].n < hi
    IN  DataFrame(df.columns, SelectSeq(df.rows, keep))

(* data[(data['age'] >= lo) & (data['age'] <= hi)] *)
filter_range(df, lo, hi) ==
    LET keep(r) == ~isna(r.cells["age"]) /\ r.cells["age"].n >= lo /\ r.cells["age"].n <= hi
    IN  DataFrame(df.columns, SelectSeq(df.rows, keep))

(* lines 781-789 *)
apply_filters(df, f) ==
    LET d1 == IF f.sex # "All" THEN filter_eq(df, "gender", f.sex) ELSE df
        d2 == IF f.civil_status # "All" THEN filter_eq(d1, "civilStatus", f.civil_status)
              ELSE d1
        d3 == IF f.employment_status # "All"
              THEN filter_eq(d2, "employmentStatus", f.employment_status) ELSE d2
        d4 == IF f.education # {} THEN filter_isin(d3, "educationalAttainment", f.education)
              ELSE d3
    IN  filter_range(d4, f.age_range[1], f.age_range[2])

(* One of the five filtering statements of lines 781-789, numbered in the   *)
(* order of the code                                                        *)
filter_step(df, f, k) ==
    CASE k = 1 -> IF f.sex # "All" THEN filter_eq(df, "gender", f.sex) ELSE df
      [] k = 2 -> IF f.civil_status # "All"
                  THEN filter_eq(df, "civilStatus", f.civil_status) ELSE df
      [] k = 3 -> IF f.employment_status # "All"
                  THEN filter_eq(df, "employmentStatus", f.employment_status) ELSE df
      [] k = 4 -> IF f.education # {}
                  THEN filter_isin(df, "educationalAttainment", f.education) ELSE df
      [] k = 5 -> filter_range(df, f.age_range[1], f.age_range[2])

(* The five statements executed in another order *)
RECURSIVE apply_in_order(_, _, _)
apply_in_order(df, f, order) ==
    IF order = <<>> THEN df
    ELSE apply_in_order(filter_step(df, f, Head(order)), f, Tail(order))

(* The selections the sidebar widgets of lines 751-778 offer for a cleaned   *)
(* table; the two ends of the slider are moved to ages that occur in it.     *)
SidebarChoices(df) ==
    {[sex |-> sx, civil_status |-> cs, employment_status |-> es,
      education |-> ed, age_range |-> ends] :
        sx \in {"All"} \cup Unique(Column(df, "gender")),
        cs \in {"All"} \cup Unique(Column(df, "civilStatus")),
        es \in {"All"} \cup Unique(Column(df, "employmentStatus")),
        ed \in SUBSET Unique(Column(df, "educationalAttainment")),
        ends \in {e \in AgesIn(df) \X AgesIn(df) : e[1] <= e[2]}}

(* data.select_dtypes(include='object').columns: after cleaning the income, *)
(* household, birthdate and age columns are numeric or datetime              *)
object_columns(df) ==
    IF "age" \in df.columns
    THEN df.columns \ {"avgMonthlyIncome", "householdNum", "birthdate", "age"}
    ELSE df.columns

(* A grouping that gives every group the number of all keyed rows *)
groupby_size_total(df, keys) ==
    LET keyed == {i \in 1..Len(df.rows) :
                     \A k \in 1..Len(keys) : ~isna(df.rows[i].cells[keys[k]])}
        key(i) == [k \in 1..Len(keys) |-> df.rows[i].cells[keys[k]].s]
    IN  {[key |-> key(i), Population |-> Cardinality(keyed)] : i \in keyed}

(* data.groupby(keys).size().reset_index(name="Population"): one row per    *)
(* combination of key values that occurs, with the number of rows having it; *)
(* rows with a null key are left out.                                        *)
groupby_size(df, keys) ==
    LET keyed == {i \in 1..Len(df.rows) :
                     \A k \in 1..Len(keys) : ~isna(df.rows[i].cells[keys[k]])}
        key(i) == [k \in 1..Len(keys) |-> df.rows[i].cells[keys[k]].s]
    IN  {[key |-> key(i),
          Population |-> Cardinality({j \in keyed : key(j) = key(i)})] : i \in keyed}

(* display_treemap, lines 39-112: the grouped counts, or the ValueError of   *)
(* idxmax on an empty Series (line 93)                                       *)
treemap(df, selected_parent, selected_child) ==
    LET groups == groupby_size(df, <<selected_parent, selected_child>>)
    IN  IF groups = {} THEN [raised |-> "ValueError", value |-> groups]
        ELSE [raised |-> "none", value |-> groups]

(* line 371: data[['age', 'avgMonthlyIncome']].dropna() *)
paired(df) == dropna(df, {"age", "avgMonthlyIncome"})

(* Series.dropna() of one column, with the index labels kept *)
series_dropna(df, col) ==
    LET kept == dropna(df, {col})
    IN  [i \in 1..Len(kept.rows) |->
            [index |-> kept.rows[i].index, value |-> kept.rows[i].cells[col]]]

RECURSIVE SumSeq(_)
SumSeq(q) == IF q = <<>> THEN 0 ELSE Head(q) + SumSeq(Tail(q))

(* scipy.stats.pearsonr(x, y) for two sequences of whole numbers of equal    *)
(* length: ValueError for fewer than 2 observations, nan (with a             *)
(* ConstantInputWarning) when x or y is constant, and otherwise              *)
(* r = num / sqrt(sxx * syy), kept here as the three sums over the           *)
(* deviations n*x[i] - sum(x) and n*y[i] - sum(y).                           *)
pearsonr(x, y) ==
    LET n == Len(x)
        dx == [i \in 1..n |-> n * x[i] - SumSeq(x)]
        dy == [i \in 1..n |-> n * y[i] - SumSeq(y)]
        sxy == SumSeq([i \in 1..n |-> dx[i] * dy[i]])
        sxx == SumSeq([i \in 1..n |-> dx[i] * dx[i]])
        syy == SumSeq([i \in 1..n |-> dy[i] * dy[i]])
    IN  IF n < 2 THEN [raised |-> "ValueError", value |-> NoCorrelation]
        ELSE IF sxx = 0 \/ syy = 0
             THEN [raised |-> "none",
                   value |-> [state |-> "nan", num |-> 0, sxx |-> sxx, syy |-> syy]]
             ELSE [raised |-> "none",
                   value |-> [state |-> "value", num |-> sxy, sxx |-> sxx, syy |-> syy]]

(* lines 371-378 of display_demographics: pearsonr is given the two columns  *)
(* of the rows where both are non-null (the ages and incomes of the tables   *)
(* here are whole numbers); linregress is given the two columns with their   *)
(* nulls dropped separately and raises ValueError when their lengths differ, *)
(* when they are empty, or when all x are identical.                         *)
demographics(df) ==
    LET clean == paired(df)
        r == pearsonr([i \in 1..Len(clean.rows) |-> clean.rows[i].cells["age"].n],
                      [i \in 1..Len(clean.rows) |->
                          clean.rows[i].cells["avgMonthlyIncome"].n])
        x == series_dropna(df, "age")
        y == series_dropna(df, "avgMonthlyIncome")
    IN  IF r.raised # "none"
        THEN [raised |-> r.raised, value |-> NoFit, correlation |-> r.value]
        ELSE LET args == [reached |-> TRUE, x |-> x, y |-> y]
             IN  IF \/ Len(x) # Len(y)
                    \/ Len(x) = 0
                    \/ (Len(x) > 1 /\ Cardinality({x[i].value : i \in 1..Len(x)}) = 1)
                 THEN [raised |-> "ValueError", value |-> args, correlation |-> r.value]
                 ELSE [raised |-> "none", value |-> args, correlation |-> r.value]

(* display_education, lines 467-539: with the button pressed, idxmax over    *)
(* the average incomes (line 524) fails when no group has one                *)
education(df, clicked) ==
    LET with_income == {r \in RowsOf(df) :
                           ~isna(r.cells["educationalAttainment"])
                           /\ ~isna(r.cells["avgMonthlyIncome"])}
    IN  IF clicked /\ with_income = {} THEN "ValueError" ELSE "none"

PipeCells ==
    {BaseCells,
     [BaseCells EXCEPT !["gender"] = Str("Female"),
                       !["birthdate"] = Str("1990-06-15"),
                       !["civilStatus"] = Str("Married"),
                       !["avgMonthlyIncome"] = Str("20000"),
                       !["educationalAttainment"] = NaN],
     [BaseCells EXCEPT !["gender"] = Str("Female"),
                       !["birthdate"] = Str("1990-06-15"),
                       !["avgMonthlyIncome"] = Str("abc")],
     [BaseCells EXCEPT !["birthdate"] = Str("abc")]}

MaxPipeRows == 3

RECURSIVE PipeSeqs(_)
PipeSeqs(n) ==
    IF n = 0 THEN {<<>>}
    ELSE LET shorter == PipeSeqs(n - 1)
         IN  shorter \cup {Append(q, x) : q \in {p \in shorter : Len(p) = n - 1},
                                          x \in PipeCells}

PipeTables == {load_csv(CsvColumns, q) : q \in PipeSeqs(MaxPipeRows)}

InitPipe ==
    /\ raw \in PipeTables
    /\ data = raw
    /\ pc = "start"
    /\ current_year \in Years
    /\ result = NoResult
    /\ again = NoResult
    /\ IdleEvaluator
    /\ IdleCharts

(* line 746 false: the uploaded table has no rows, nothing is cleaned or    *)
(* filtered                                                                  *)
SkipClean ==
    /\ pc = "start"
    /\ Len(data.rows) = 0
    /\ pc' = "tab1_treemap"
    /\ UNCHANGED <<raw, data, current_year, result, again, correlation_value,
                   evaluation, pyramid, filters, called, fit, group_data, correlation>>

(* Lines 746-748 with a clean_data that works in place                     *)
(* (data.dropna(subset=..., inplace=True) and so on): the uploaded table    *)
(* itself becomes the cleaned one                                           *)
CleanInPlace ==
    /\ pc = "start"
    /\ Len(data.rows) > 0
    /\ result' = clean_data(data, current_year)
    /\ data' = IF result'.raised = "none" THEN result'.value ELSE data
    /\ raw' = data'
    /\ pc' = IF result'.raised = "none" THEN "sidebar" ELSE "aborted"
    /\ UNCHANGED <<current_year, again, correlation_value, evaluation, pyramid,
                   filters, called, fit, group_data, correlation>>

(* lines 746-748 *)
Clean ==
    /\ pc = "start"
    /\ Len(data.rows) > 0
    /\ result' = clean_data(data, current_year)
    /\ data' = IF result'.raised = "none" THEN result'.value ELSE data
    /\ pc' = IF result'.raised = "none" THEN "sidebar" ELSE "aborted"
    /\ UNCHANGED <<raw, current_year, again, correlation_value, evaluation, pyramid,
                   filters, called, fit, group_data, correlation>>

(* lines 750-778 on a cleaned table without rows: int(data['age'].min()) is *)
(* int(nan), a ValueError                                                    *)
SidebarFails ==
    /\ pc = "sidebar"
    /\ Len(data.rows) = 0
    /\ result' = Raised("ValueError")
    /\ pc' = "aborted"
    /\ UNCHANGED <<raw, data, current_year, again, correlation_value, evaluation,
                   pyramid, filters, called, fit, group_data, correlation>>

(* lines 750-778 *)
Sidebar ==
    /\ pc = "sidebar"
    /\ Len(data.rows) > 0
    /\ \E f \in SidebarChoices(data) : filters' = f
    /\ pc' = "apply"
    /\ UNCHANGED <<raw, data, current_year, result, again, correlation_value,
                   evaluation, pyramid, called, fit, group_data, correlation>>

(* lines 780-789 *)
ApplyFilters ==
    /\ pc = "apply"
    /\ data' = apply_filters(data, filters)
    /\ pc' = "tab1_treemap"
    /\ UNCHANGED <<raw, current_year, result, again, correlation_value, evaluation,
                   pyramid, filters, called, fit, group_data, correlation>>

(* A display function that only reads the table and draws: its widget and   *)
(* plotting calls belong to the rendering layer and return                   *)
Draws(name, at, next) ==
    /\ pc = at
    /\ called' = Append(called, name)
    /\ result' = Returned(EmptyFrame)
    /\ pc' = next
    /\ UNCHANGED <<raw, data, current_year, again, correlation_value, evaluation,
                   pyramid, filters, fit, group_data, correlation>>

(* The columns the two selectboxes of lines 52-53 are moved among; the two   *)
(* boxes show different columns, as their defaults (index 0 and 1) do        *)
TreemapOptions(df) == object_columns(df) \cap {"gender", "civilStatus"}

(* line 804 *)
display_treemap ==
    /\ pc = "tab1_treemap"
    /\ called' = Append(called, "display_treemap")
    /\ \E selected_parent \in TreemapOptions(data), selected_child \in TreemapOptions(data) :
          LET out == treemap(data, selected_parent, selected_child)
          IN  /\ selected_parent # selected_child
              /\ group_data' = out.value
              /\ result' = IF out.raised = "none" THEN Returned(EmptyFrame)
                           ELSE Raised(out.raised)
              /\ pc' = IF out.raised = "none" THEN "tab1_parallel" ELSE "aborted"
    /\ UNCHANGED <<raw, data, current_year, again, correlation_value, evaluation,
                   pyramid, filters, fit, correlation>>

(* line 805 *)
display_parallel_coordinates ==
    Draws("display_parallel_coordinates", "tab1_parallel", "tab1_bubble")

(* line 806: the correlation of lines 260-261 is computed only when both    *)
(* columns have more than one distinct value                                 *)
display_bubble_chart == Draws("display_bubble_chart", "tab1_bubble", "tab1_pyramid")

(* line 809: the heatmap is drawn inside try/except *)
display_correlation_heatmap ==
    Draws("display_correlation_heatmap", "tab2_heatmap", "tab2_demographics")

(* line 810 *)
display_demographics ==
    /\ pc = "tab2_demographics"
    /\ called' = Append(called, "display_demographics")
    /\ LET out == demographics(data)
       IN  /\ fit' = out.value
           /\ correlation' = out.correlation
           /\ result' = IF out.raised = "none" THEN Returned(EmptyFrame)
                        ELSE Raised(out.raised)
           /\ pc' = IF out.raised = "none" THEN "tab3_education" ELSE "aborted"
    /\ UNCHANGED <<raw, data, current_year, again, correlation_value, evaluation,
                   pyramid, filters, group_data>>

(* line 812 *)
display_education ==
    /\ pc = "tab3_education"
    /\ called' = Append(called, "display_education")
    /\ \E clicked \in BOOLEAN :
          LET e == education(data, clicked)
          IN  /\ result' = IF e = "none" THEN Returned(EmptyFrame) ELSE Raised(e)
              /\ pc' = IF e = "none" THEN "tab4_household" ELSE "aborted"
    /\ UNCHANGED <<raw, data, current_year, again, correlation_value, evaluation,
                   pyramid, filters, fit, group_data, correlation>>

(* line 814 *)
display_household_info == Draws("display_household_info", "tab4_household", "tab5_sector")

(* line 816 *)
display_sector_representation ==
    Draws("display_sector_representation", "tab5_sector", "tab6_ethnicity")

(* line 818 *)
display_ethnicity == Draws("display_ethnicity", "tab6_ethnicity", "done")

NextPipe ==
    \/ SkipClean
    \/ Clean
    \/ SidebarFails
    \/ Sidebar
    \/ ApplyFilters
    \/ display_treemap
    \/ display_parallel_coordinates
    \/ display_bubble_chart
    \/ display_population_pyramid
    \/ display_correlation_heatmap
    \/ display_demographics
    \/ display_education
    \/ display_household_info
    \/ display_sector_representation
    \/ display_ethnicity

SpecPipe == InitPipe /\ [][NextPipe]_vars

DisplayFunctions ==
    <<"display_treemap", "display_parallel_coordinates", "display_bubble_chart",
      "display_population_pyramid", "display_correlation_heatmap",
      "display_demographics", "display_education", "display_household_info",
      "display_sector_representation", "display_ethnicity">>

(* C9: the regression is fitted on paired non-null observations: x and y    *)
(* have the same length, the i-th x and the i-th y come from the same row,  *)
(* and the rows used are those with both age and income non-null.           *)
C9_RegressionPaired ==
    fit.reached =>
      /\ Len(fit.x) = Len(fit.y)
      /\ \A i \in 1..Len(fit.x) : fit.x[i].index = fit.y[i].index
      /\ {fit.x[i].index : i \in 1..Len(fit.x)} = {r.index : r \in RowsOf(paired(data))}

(* The table a chart is given is degenerate: no row, one row, a constant    *)
(* age or income column, or no income at all.                               *)
Degenerate(df) ==
    \/ Len(df.rows) <= 1
    \/ Cardinality({r.cells["age"] : r \in RowsOf(df)}) = 1
    \/ Cardinality({r.cells["avgMonthlyIncome"] : r \in RowsOf(df)}) = 1
    \/ \A r \in RowsOf(df) : isna(r.cells["avgMonthlyIncome"])

(* C10: a chart given degenerate input fails alone: when the filtered table *)
(* of an upload with rows is degenerate, the run ends only after every      *)
(* display function of the six tabs was called.                             *)
C10_FailureStaysLocal ==
    (/\ pc \in {"done", "aborted"}
     /\ Len(raw.rows) > 0
     /\ Len(called) > 0
     /\ Degenerate(data)) =>
        called = DisplayFunctions

RECURSIVE GCD(_, _)
GCD(a, b) == IF b = 0 THEN a ELSE GCD(b, a % b)

Abs(a) == IF a < 0 THEN 0 - a ELSE a

(* num / sqrt(sxx * syy) lies in [-1, 1]: num^2 <= sxx * syy, compared after *)
(* the common factors of num with sxx and with syy are divided out           *)
WithinUnit(c) ==
    LET g1 == GCD(Abs(c.num), c.sxx)
        g2 == GCD(Abs(c.num), c.syy)
    IN  (Abs(c.num) \div g1) * (Abs(c.num) \div g2) <= (c.sxx \div g1) * (c.syy \div g2)

(* The input of the correlation is degenerate: fewer than 2 rows with both  *)
(* age and income, or one of the two columns is constant over those rows.   *)
DegeneratePairs(df) ==
    \/ Len(paired(df).rows) < 2
    \/ Cardinality({r.cells["age"] : r \in RowsOf(paired(df))}) = 1
    \/ Cardinality({r.cells["avgMonthlyIncome"] : r \in RowsOf(paired(df))}) = 1

(* C11: once display_demographics was called, the Pearson correlation of a  *)
(* degenerate input was reported as not computable (nan) and no exception   *)
(* was raised by it; for every other input the coefficient lies in [-1, 1]. *)
C11_PearsonNeverRaises ==
    (\E i \in 1..Len(called) : called[i] = "display_demographics") =>
        IF DegeneratePairs(data)
        THEN correlation.state = "nan"
        ELSE correlation.state = "value" /\ WithinUnit(correlation)

(* The sidebar selections were applied to a cleaned table: the run is past  *)
(* line 789.                                                                *)
Filtered ==
    /\ Len(raw.rows) > 0
    /\ pc \notin {"start", "sidebar", "apply"}
    /\ (pc = "aborted" => Len(called) > 0)

(* C12: with an empty educational-attainment selection no row passes the    *)
(* filter: the filtered table is empty.                                     *)
C12_EmptySelectionEmptyTable ==
    (Filtered /\ filters.education = {}) => Len(data.rows) = 0

----------------------------------------------------------------------------
(* Cleaning and filtering alone: lines 746-789 of the script, up to the     *)
(* filtered table the tabs are given.                                       *)

MaxFilterRows == 2

FilterTables == {load_csv(CsvColumns, q) : q \in PipeSeqs(MaxFilterRows)}

InitFilter ==
    /\ raw \in FilterTables
    /\ data = raw
    /\ pc = "start"
    /\ current_year \in Years
    /\ result = NoResult
    /\ again = NoResult
    /\ IdleEvaluator
    /\ IdleCharts

NextFilter ==
    \/ SkipClean
    \/ Clean
    \/ SidebarFails
    \/ Sidebar
    \/ ApplyFilters

SpecFilter == InitFilter /\ [][NextFilter]_vars

(* Every ordering of the five filtering statements *)
Orders ==
    {order \in [1..5 -> 1..5] : \A i, j \in 1..5 : i # j => order[i] # order[j]}

(* The row satisfies every predicate the sidebar selections make active:    *)
(* a selectbox left on "All" and an empty multiselect add no predicate.     *)
Satisfies(r, f) ==
    /\ f.sex # "All" => r.cells["gender"] = Str(f.sex)
    /\ f.civil_status # "All" => r.cells["civilStatus"] = Str(f.civil_status)
    /\ f.employment_status # "All" => r.cells["employmentStatus"] = Str(f.employment_status)
    /\ f.education # {} =>
           \E e \in f.education : r.cells["educationalAttainment"] = Str(e)
    /\ r.cells["age"].t = "num"
    /\ f.age_range[1] <= r.cells["age"].n
    /\ r.cells["age"].n <= f.age_range[2]

(* C13: the filter predicates compose by AND and commute: the filtered      *)
(* table is the one every ordering of the five filtering statements gives,  *)
(* and its rows are exactly the cleaned rows that satisfy every active      *)
(* predicate (equality on gender, civil status and employment status,       *)
(* membership for education, lo <= age <= hi).                              *)
C13_FiltersCommute ==
    (Filtered /\ pc = "tab1_treemap") =>
        LET cleaned == clean_data(raw, current_year).value
        IN  /\ \A order \in Orders : apply_in_order(cleaned, filters, order) = data
            /\ RowsOf(data) = {r \in RowsOf(cleaned) : Satisfies(r, filters)}

(* Two predicates are active, some rows pass and some do not *)
C13_Witness ==
    /\ Filtered
    /\ pc = "tab1_treemap"
    /\ filters.sex # "All"
    /\ filters.education # {}
    /\ Len(data.rows) > 0
    /\ Len(data.rows) < Len(clean_data(raw, current_year).value.rows)

(* C14: the pivot of the population pyramid has exactly the two columns     *)
(* Male and Female, in that order, whatever gender values the table holds;  *)
(* a gender of the two with no row in an age group has the value 0 there.   *)
C14_PivotMaleFemale ==
    pyramid.shown =>
      /\ pyramid.pivot.columns = <<"Male", "Female">>
      /\ \A r \in pyramid.pivot.rows :
            /\ DOMAIN r.cells = {"Male", "Female"}
            /\ \A g \in {"Male", "Female"} :
                  (\A i \in 1..Len(data.rows) :
                      ~(/\ data.rows[i].cells["gender"] = Str(g)
                        /\ pyramid.age_group[i] = Str(r.age_group)))
                  => r.cells[g] = 0

(* A pyramid was drawn for a table with a third gender value and no Female  *)
C14_Witness ==
    /\ pyramid.shown
    /\ pyramid.pivot.rows # {}
    /\ \E i \in 1..Len(data.rows) : data.rows[i].cells["gender"] = Str("Other")
    /\ \E i \in 1..Len(data.rows) : data.rows[i].cells["gender"] = Str("Male")
    /\ \A i \in 1..Len(data.rows) : data.rows[i].cells["gender"] # Str("Female")

(* C15: grouping a table without rows is not an error: when the filtered   *)
(* table is empty, the treemap (with its largest and smallest group) and    *)
(* the population pyramid return without raising.                           *)
C15_EmptyGroupingNoError ==
    (/\ Filtered
     /\ Len(data.rows) = 0
     /\ Len(called) > 0
     /\ called[Len(called)] \in {"display_treemap", "display_population_pyramid"}) =>
        result.raised = "none"

----------------------------------------------------------------------------
(* clean_data called twice on the same uploaded table, with the calendar    *)
(* moving on: line 29 reads the current date at each call.                  *)

LaterYears == {2027}

(* clean_data(T) once more, for the uploaded table T of the first call *)
CleanRaw ==
    /\ pc = "cleaned"
    /\ again' = clean_data(raw, current_year)
    /\ pc' = "twice"
    /\ UNCHANGED <<raw, data, current_year, result, correlation_value, evaluation,
                   pyramid, filters, called, fit, group_data, correlation>>

(* New Year's Day passes: pd.to_datetime('today').year is one more *)
NewYear ==
    /\ \E y \in LaterYears : y = current_year + 1 /\ current_year' = y
    /\ UNCHANGED <<raw, data, pc, result, again, correlation_value, evaluation,
                   pyramid, filters, called, fit, group_data, correlation>>

NextTwice == CleanOnce \/ CleanRaw \/ NewYear

SpecTwice == InitClean /\ [][NextTwice]_vars

(* C16: cleaning is deterministic: two calls of clean_data on the same      *)
(* uploaded table return identical tables, also when the calls are made at  *)
(* different times.                                                         *)
C16_CleanDeterministic ==
    pc = "twice" => again = result

RECURSIVE total_population(_)
total_population(groups) ==
    IF groups = {} THEN 0
    ELSE LET g == CHOOSE x \in groups : TRUE
         IN  g.Population + total_population(groups \ {g})

(* The values row i of the table has in the key columns *)
KeyOf(df, keys, i) == [k \in 1..Len(keys) |-> df.rows[i].cells[keys[k]]]

(* The grouped counts partition the rows of the table by the key columns *)
Partitions(groups, df, keys) ==
    /\ \A g, h \in groups : g.key = h.key => g = h
    /\ \A g \in groups :
          /\ g.Population > 0
          /\ g.Population =
                Cardinality({i \in 1..Len(df.rows) :
                               KeyOf(df, keys, i) = [k \in 1..Len(keys) |-> Str(g.key[k])]})
    /\ \A i \in 1..Len(df.rows) :
          \E g \in groups : KeyOf(df, keys, i) = [k \in 1..Len(keys) |-> Str(g.key[k])]
    /\ total_population(groups) = Len(df.rows)

(* C18: counting by key columns partitions the rows: once display_treemap   *)
(* grouped the table by its two selected columns, there is one group per    *)
(* combination of key values that occurs, its count is the number of rows   *)
(* with that combination, and the counts add up to the number of rows.      *)
C18_CountsPartition ==
    Len(called) > 0 =>
        \E selected_parent, selected_child \in TreemapOptions(data) :
            /\ selected_parent # selected_child
            /\ Partitions(group_data, data, <<selected_parent, selected_child>>)

(* An upload of one valid Male and one valid Female row, cleaned and left    *)
(* unfiltered, counted: one group with Male and one with Female, 1 row each *)
C18_Witness ==
    /\ Filtered
    /\ Len(called) > 0
    /\ Len(raw.rows) = 2
    /\ {data.rows[i].cells["gender"] : i \in 1..Len(data.rows)} = {Str("Male"), Str("Female")}
    /\ Cardinality(group_data) = 2
    /\ \A g \in group_data : g.Population = 1
    /\ \E g \in group_data : \E k \in 1..Len(g.key) : g.key[k] = "Male"
    /\ \E g \in group_data : \E k \in 1..Len(g.key) : g.key[k] = "Female"

====
